---- MODULE Spec2Model ----
(***************************************************************************)
(* A model of linecook's label pipeline: upload validation, the page scan  *)
(* of ImageProcessor.process_uploaded_file, InferenceService's selection   *)
(* of the best prediction and ImageProcessor.crop_and_save_prediction.     *)
(*                                                                         *)
(* Numbers.  A prediction's x, y, width and height are floating point in   *)
(* the program.  Here they are dyadic: every coordinate of a prediction is *)
(* carried in HALF PIXELS (the integer 7 stands for 3.5 px), so x - w/2 is *)
(* (2x - w)/4 pixels and int() is truncation toward zero of that quotient. *)
(* Page sizes and crop rectangles are whole pixels, as in PIL.  Aspect     *)
(* ratio scores are exact rationals [num, den] compared by cross           *)
(* multiplication, with a flag for float('inf').                           *)
(***************************************************************************)
EXTENDS Integers, Sequences, FiniteSets, TLC

VARIABLES
    pc,        \* position of the request inside process_uploaded_file
    upload,    \* the request: filename, byte length, kind of content, print_label
    isPdf,     \* the branch process_uploaded_file took (_is_pdf_file)
    npages,    \* number of page images loaded (len(pages), or 1 for an image)
    pageIdx,   \* the page the scan is at (i of enumerate(pages))
    inferred,  \* what client.infer gave for the current page
    log,       \* the operations performed so far, in program order
    files,     \* temporary files that exist on disk
    outcome,   \* what process_uploaded_file returned or raised
    call,      \* a direct call of one function: its name, argument and result
    http,      \* what create_labels has answered to the request
    reqs,      \* concurrent requests: each one's position, inputs, files and answer
    answers,   \* what client.infer gives for each page of the upload, when that is fixed
    legacy     \* main.process_file on the same upload: position, page, result

vars == << pc, upload, isPdf, npages, pageIdx, inferred, log, files, outcome, call, http,
          reqs, answers, legacy >>

(***************************************************************************)
(* Bounds of the model.                                                    *)
(***************************************************************************)
\* pages of a PDF
MaxPages == 2
\* predictions client.infer returns for one page in a pipeline run
MaxPreds == 2
\* page width and height in pixels
PageW == 4
PageH == 6
\* direct calls of pick_best_prediction: list length, and width/height range
MaxSelLen == 2
MaxSelDim == 6
\* direct calls of crop_and_save_prediction: width/height range in half pixels,
\* and how far (half pixels) a centre may lie beyond the page on each side
MaxBoxDim == 6
MaxOver == 3

(***************************************************************************)
(* Arithmetic.                                                             *)
(***************************************************************************)
Abs(n) == IF n < 0 THEN -n ELSE n

Min2(a, b) == IF b < a THEN b ELSE a

Max2(a, b) == IF b > a THEN b ELSE a

\* Python's int() of the quotient n/d (d > 0): truncation toward zero.
TruncDiv(n, d) == IF n >= 0 THEN n \div d ELSE -((-n) \div d)

(***************************************************************************)
(* Predictions.                                                            *)
(***************************************************************************)
Pred(x, y, w, h, c) == [x |-> x, y |-> y, width |-> w, height |-> h, confidence |-> c]

NoPred == Pred(0, 0, 0, 0, 0)

\* Sequences over S of length 0..n.
SeqUpTo(S, n) == UNION { [1..k -> S] : k \in 0..n }

(***************************************************************************)
(* config.py                                                               *)
(***************************************************************************)
\* TARGET_RATIOS = (4 / 6, 6 / 4), kept as fractions n/d
TARGET_RATIOS == << [n |-> 4, d |-> 6], [n |-> 6, d |-> 4] >>

(***************************************************************************)
(* services/inference.py: InferenceService.pick_best_prediction            *)
(***************************************************************************)
\* a < b on two scores, as Python compares floats (inf < inf is False)
ScoreLess(a, b) ==
    IF a.inf THEN FALSE
    ELSE IF b.inf THEN TRUE
    ELSE a.num * b.den < b.num * a.den

\* abs(ratio - target) for ratio = width / height, height > 0
RatioDistance(width, height, target) ==
    [inf |-> FALSE,
     num |-> Abs(width * target.d - target.n * height),
     den |-> height * target.d]

\* Python's min() over a non-empty sequence of scores: the first one that no
\* later one is strictly less than.  Index of the result.
RECURSIVE MinIndexFrom(_, _, _)
MinIndexFrom(keys, k, bestSoFar) ==
    IF k > Len(keys) THEN bestSoFar
    ELSE MinIndexFrom(keys, k + 1,
                      IF ScoreLess(keys[k], keys[bestSoFar]) THEN k ELSE bestSoFar)

MinIndex(keys) == MinIndexFrom(keys, 2, 1)

\* The scorer of main.py (lines 140-143): no test of height before dividing.
aspect_ratio_score_unguarded(pred) ==
    IF pred.height = 0
    THEN [raised |-> "ZeroDivisionError", inf |-> FALSE, num |-> 0, den |-> 1]
    ELSE LET dists == [k \in 1..Len(TARGET_RATIOS) |->
                          RatioDistance(pred.width, pred.height, TARGET_RATIOS[k])]
             d == dists[MinIndex(dists)]
         IN [raised |-> "none", inf |-> FALSE, num |-> d.num, den |-> d.den]

\* A scorer that takes the distance to the farther target ratio.
aspect_ratio_score_farthest(pred) ==
    IF pred.height = 0
    THEN [raised |-> "none", inf |-> TRUE, num |-> 0, den |-> 1]
    ELSE LET a == RatioDistance(pred.width, pred.height, TARGET_RATIOS[1])
             b == RatioDistance(pred.width, pred.height, TARGET_RATIOS[2])
             d == IF ScoreLess(a, b) THEN b ELSE a
         IN [raised |-> "none", inf |-> FALSE, num |-> d.num, den |-> d.den]

\* aspect_ratio_score: float('inf') for height 0, else the least distance of
\* width / height to a target ratio.
aspect_ratio_score(pred) ==
    IF pred.height = 0
    THEN [raised |-> "none", inf |-> TRUE, num |-> 0, den |-> 1]
    ELSE LET dists == [k \in 1..Len(TARGET_RATIOS) |->
                          RatioDistance(pred.width, pred.height, TARGET_RATIOS[k])]
             d == dists[MinIndex(dists)]
         IN [raised |-> "none", inf |-> FALSE, num |-> d.num, den |-> d.den]

\* The result of a call: raised = "none" and the chosen element with its
\* position in the list, or the exception raised.
PickResult(raised, msg, index, value) ==
    [raised |-> raised, msg |-> msg, index |-> index, value |-> value]

\* A selector that keeps the last of several equally good predictions.
RECURSIVE LastMinIndexFrom(_, _, _)
LastMinIndexFrom(keys, k, bestSoFar) ==
    IF k > Len(keys) THEN bestSoFar
    ELSE LastMinIndexFrom(keys, k + 1,
                          IF ScoreLess(keys[bestSoFar], keys[k]) THEN bestSoFar ELSE k)

pick_best_prediction_last(predictions) ==
    IF predictions = << >>
    THEN PickResult("ValueError", "No predictions provided", 0, NoPred)
    ELSE LET keys == [k \in 1..Len(predictions) |-> aspect_ratio_score(predictions[k])]
             idx == LastMinIndexFrom(keys, 2, 1)
         IN PickResult("none", "", idx, predictions[idx])

pick_best_prediction(predictions) ==
    IF predictions = << >>
    THEN PickResult("ValueError", "No predictions provided", 0, NoPred)
    ELSE LET keys == [k \in 1..Len(predictions) |-> aspect_ratio_score(predictions[k])]
             bad  == { k \in 1..Len(predictions) : keys[k].raised # "none" }
         IN IF bad # {}
            THEN PickResult(keys[CHOOSE k \in bad : \A j \in bad : k <= j].raised,
                            "", 0, NoPred)
            ELSE LET idx == MinIndex(keys)
                 IN PickResult("none", "", idx, predictions[idx])

(***************************************************************************)
(* PIL.Image, as far as the pipeline uses it.  An image is its size in     *)
(* pixels.                                                                 *)
(***************************************************************************)
PILImage(w, h) == [width |-> w, height |-> h]

\* A crop that takes the right and lower edge as inclusive.
ImageCrop_inclusive(image, box) ==
    IF box[3] < box[1] \/ box[4] < box[2]
    THEN [raised |-> TRUE, image |-> PILImage(0, 0)]
    ELSE [raised |-> FALSE, image |-> PILImage(box[3] - box[1] + 1, box[4] - box[2] + 1)]

\* Image.crop(box): ValueError when right < left or lower < upper (older
\* releases give an image of size 0 there, which save() then rejects);
\* otherwise an image of size (right - left, lower - upper).
ImageCrop(image, box) ==
    IF box[3] < box[1] \/ box[4] < box[2]
    THEN [raised |-> TRUE, image |-> PILImage(0, 0)]
    ELSE [raised |-> FALSE, image |-> PILImage(box[3] - box[1], box[4] - box[2])]

\* Image.rotate(90, expand=True): the canvas grows, width and height swap.
ImageRotate90Expand(image) == PILImage(image.height, image.width)

\* Image.save(path): the encoder refuses an image with a side of 0 pixels
\* ("tile cannot extend outside image").
ImageSaveRaises(image) == image.width <= 0 \/ image.height <= 0

(***************************************************************************)
(* services/image_processing.py: ImageProcessor.crop_and_save_prediction   *)
(***************************************************************************)
\* Corners taken with floor division, x - w // 2 and so on (w // 2 of a width
\* of w half pixels is w \div 4 pixels, 4 * (w \div 4) quarter pixels).
CornerBox_floorhalf(prediction) ==
    << TruncDiv(2 * prediction.x - 4 * (prediction.width \div 4), 4),
       TruncDiv(2 * prediction.y - 4 * (prediction.height \div 4), 4),
       TruncDiv(2 * prediction.x + 4 * (prediction.width \div 4), 4),
       TruncDiv(2 * prediction.y + 4 * (prediction.height \div 4), 4) >>

\* left, top, right, bottom = int(x - w/2), int(y - h/2), int(x + w/2), int(y + h/2)
CornerBox(prediction) ==
    << TruncDiv(2 * prediction.x - prediction.width, 4),
       TruncDiv(2 * prediction.y - prediction.height, 4),
       TruncDiv(2 * prediction.x + prediction.width, 4),
       TruncDiv(2 * prediction.y + prediction.height, 4) >>

\* A clamp of every corner into the page on both sides.
ClampBox_full(box, image) ==
    << Min2(image.width, Max2(0, box[1])),
       Min2(image.height, Max2(0, box[2])),
       Min2(image.width, Max2(0, box[3])),
       Min2(image.height, Max2(0, box[4])) >>

\* No clamp at all, as in main.py's crop_and_save_prediction.
ClampBox_none(box, image) == box

\* left = max(0, left); top = max(0, top);
\* right = min(image.width, right); bottom = min(image.height, bottom)
ClampBox(box, image) ==
    << Max2(0, box[1]),
       Max2(0, box[2]),
       Min2(image.width, box[3]),
       Min2(image.height, box[4]) >>

\* The result of a call: the saved label (its size, whether it was rotated,
\* the rectangle cropped), or raised = TRUE for ImageProcessingError.
CropResult(raised, box, image, rotated) ==
    [raised |-> raised, box |-> box, width |-> image.width,
     height |-> image.height, rotated |-> rotated]

\* A crop that never rotates.
crop_and_save_prediction_norotate(image, prediction) ==
    LET box == ClampBox(CornerBox(prediction), image)
        c   == ImageCrop(image, box)
    IN IF c.raised \/ ImageSaveRaises(c.image)
       THEN CropResult(TRUE, box, PILImage(0, 0), FALSE)
       ELSE CropResult(FALSE, box, c.image, FALSE)

\* A crop that also rotates a square crop (width >= height).
crop_and_save_prediction_rotate_ge(image, prediction) ==
    LET box == ClampBox(CornerBox(prediction), image)
        c   == ImageCrop(image, box)
    IN IF c.raised
       THEN CropResult(TRUE, box, PILImage(0, 0), FALSE)
       ELSE LET rot     == c.image.width >= c.image.height
                cropped == IF rot THEN ImageRotate90Expand(c.image) ELSE c.image
            IN IF ImageSaveRaises(cropped)
               THEN CropResult(TRUE, box, PILImage(0, 0), rot)
               ELSE CropResult(FALSE, box, cropped, rot)

crop_and_save_prediction(image, prediction) ==
    LET box == ClampBox(CornerBox(prediction), image)
        c   == ImageCrop(image, box)
    IN IF c.raised
       THEN CropResult(TRUE, box, PILImage(0, 0), FALSE)
       ELSE LET rot     == c.image.width > c.image.height
                cropped == IF rot THEN ImageRotate90Expand(c.image) ELSE c.image
            IN IF ImageSaveRaises(cropped)
               THEN CropResult(TRUE, box, PILImage(0, 0), rot)
               ELSE CropResult(FALSE, box, cropped, rot)

(***************************************************************************)
(* Filenames are sequences of characters.                                  *)
(***************************************************************************)
\* str.lower() on the characters filenames are built from here
LowerChar(c) ==
    CASE c = "P" -> "p"
      [] c = "D" -> "d"
      [] c = "F" -> "f"
      [] c = "N" -> "n"
      [] c = "G" -> "g"
      [] OTHER -> c

\* A lower() that leaves the case as it is.
Lower_identity(s) == s

Lower(s) == [k \in 1..Len(s) |-> LowerChar(s[k])]

RECURSIVE StripSlashes(_)
\* pathlib drops the slashes a path ends with when it parses it
StripSlashes(name) ==
    IF name # << >> /\ name[Len(name)] = "/"
    THEN StripSlashes(SubSeq(name, 1, Len(name) - 1))
    ELSE name

\* pathlib's PurePath.name: the final component of the parsed path
PathName(path) ==
    LET s       == StripSlashes(path)
        slashes == { k \in 1..Len(s) : s[k] = "/" }
    IN IF slashes = {} THEN s
       ELSE SubSeq(s, (CHOOSE k \in slashes : \A j \in slashes : j <= k) + 1, Len(s))

\* pathlib's PurePath.suffix: the text of the final component from its last
\* dot on, unless that dot is its first or its last character.
PathSuffix(path) ==
    LET name == PathName(path)
        dots == { k \in 1..Len(name) : name[k] = "." }
    IN IF dots = {} THEN << >>
       ELSE LET p == CHOOSE k \in dots : \A j \in dots : j <= k
            IN IF 1 < p /\ p < Len(name) THEN SubSeq(name, p, Len(name)) ELSE << >>

\* str.endswith
EndsWith(s, suffix) ==
    /\ Len(s) >= Len(suffix)
    /\ SubSeq(s, Len(s) - Len(suffix) + 1, Len(s)) = suffix

DotPdf == << ".", "p", "d", "f" >>

\* ALLOWED_EXTENSIONS = {".pdf", ".jpg", ".jpeg", ".png"}  (config.py)
ALLOWED_EXTENSIONS ==
    { DotPdf, << ".", "j", "p", "g" >>, << ".", "j", "p", "e", "g" >>,
      << ".", "p", "n", "g" >> }

\* {".jpg", ".jpeg", ".png"}  (validate_file_content, line 110)
IMAGE_EXTENSIONS ==
    { << ".", "j", "p", "g" >>, << ".", "j", "p", "e", "g" >>, << ".", "p", "n", "g" >> }

\* MAX_FILE_SIZE = 50 * 1024 * 1024, scaled down to a length of 3
MAX_FILE_SIZE == 3

(***************************************************************************)
(* Exceptions and messages.  A message is a sequence of phrases; str(e) of *)
(* an exception is its msg.                                                *)
(***************************************************************************)
Exc(type, msg) == [type |-> type, msg |-> msg]

NoExc == Exc("none", << >>)

\* raise ImageProcessingError(f"<prefix>{str(e)}")
Wrapped(prefix, e) == Exc("ImageProcessingError", << prefix >> \o e.msg)

\* temporary_file's "except Exception": whatever the body of the with block
\* raises comes out as ImageProcessingError("Temporary file error: ...").
FromTemporaryFile(e) == Wrapped("Temporary file error: ", e)

\* Leaving "with self.temporary_file(suffix, delete)": the finally clause
\* closes the file only when delete is False, and closing does not remove
\* such a file.  A file made with delete=True is removed when its
\* NamedTemporaryFile object is finalized: on a normal exit that is when the
\* generator ends; when the block raised, the traceback of the exception holds
\* the generator's frame and the file stays until the exception is released.
temporary_file_exit(fs, name, delete, raised) ==
    IF delete /\ ~raised THEN fs \ { name } ELSE fs

Contains(msg, phrase) == \E k \in 1..Len(msg) : msg[k] = phrase

(***************************************************************************)
(* services/image_processing.py: ImageProcessor.validate_file_content      *)
(*   content is what the bytes are: "pdf" (they begin with %PDF-), "image" *)
(*   (PIL opens and verifies them) or "junk" (neither).                    *)
(***************************************************************************)
\* A validation that rejects a file of exactly the maximum size (>=).
validate_file_content_size_ge(size, filename, content) ==
    LET file_ext == Lower(PathSuffix(filename))
    IN IF size >= MAX_FILE_SIZE
       THEN Exc("ImageProcessingError", << "File size exceeds maximum allowed size" >>)
       ELSE IF file_ext \notin ALLOWED_EXTENSIONS
       THEN Exc("ImageProcessingError", << "File extension not allowed" >>)
       ELSE IF file_ext \in IMAGE_EXTENSIONS
       THEN IF content # "image"
            THEN Exc("ImageProcessingError", << "Invalid image file: " >>)
            ELSE NoExc
       ELSE IF file_ext = DotPdf
       THEN IF content # "pdf"
            THEN Exc("ImageProcessingError", << "Invalid PDF file: missing PDF header" >>)
            ELSE NoExc
       ELSE NoExc

validate_file_content(size, filename, content) ==
    LET file_ext == Lower(PathSuffix(filename))
    IN IF size > MAX_FILE_SIZE
       THEN Exc("ImageProcessingError", << "File size exceeds maximum allowed size" >>)
       ELSE IF file_ext \notin ALLOWED_EXTENSIONS
       THEN Exc("ImageProcessingError", << "File extension not allowed" >>)
       ELSE IF file_ext \in IMAGE_EXTENSIONS
       THEN IF content # "image"
            THEN Exc("ImageProcessingError", << "Invalid image file: " >>)
            ELSE NoExc
       ELSE IF file_ext = DotPdf
       THEN IF content # "pdf"
            THEN Exc("ImageProcessingError", << "Invalid PDF file: missing PDF header" >>)
            ELSE NoExc
       ELSE NoExc

\* _is_pdf_file: filename.lower().endswith(".pdf")
is_pdf_file(filename) == EndsWith(Lower(filename), DotPdf)

(***************************************************************************)
(* services/inference.py: InferenceService.detect_labels                   *)
(*   result is what client.infer did: kind "ok" with its predictions, or   *)
(*   an exception: kind "ValueError" for one that is a ValueError (a body  *)
(*   that is not JSON raises json's JSONDecodeError, a ValueError),        *)
(*   "Exception" for any other.  infer_image re-raises both (line 96).     *)
(*   calls lists the arguments pick_best_prediction was called with.       *)
(***************************************************************************)
DetectResult(raised, msg, calls, best) ==
    [raised |-> raised, msg |-> msg, calls |-> calls, best |-> best]

\* detect_labels that takes the first prediction instead of the best.
detect_labels_first(result) ==
    IF result.kind # "ok"
    THEN DetectResult(result.kind, << "<inference error>" >>, << >>, NoPred)
    ELSE IF result.predictions = << >>
    THEN DetectResult("ValueError", << "No shipping labels detected", "in image" >>,
                      << >>, NoPred)
    ELSE DetectResult("none", << "" >>, << result.predictions >>, result.predictions[1])

\* detect_labels without its test "if not predictions".
detect_labels_unchecked(result) ==
    IF result.kind # "ok"
    THEN DetectResult(result.kind, << "<inference error>" >>, << >>, NoPred)
    ELSE LET b == pick_best_prediction(result.predictions)
         IN DetectResult(b.raised, << b.msg >>, << result.predictions >>, b.value)

detect_labels(result) ==
    IF result.kind # "ok"
    THEN DetectResult(result.kind, << "<inference error>" >>, << >>, NoPred)
    ELSE IF result.predictions = << >>
    THEN DetectResult("ValueError", << "No shipping labels detected", "in image" >>,
                      << >>, NoPred)
    ELSE LET b == pick_best_prediction(result.predictions)
         IN DetectResult(b.raised, << b.msg >>, << result.predictions >>, b.value)

(***************************************************************************)
(* The inputs of a pipeline run.                                           *)
(***************************************************************************)
Filenames ==
    { << "a", ".", "p", "d", "f" >>, << "a", ".", "P", "D", "F" >>,
      << "a", ".", "p", "n", "g" >>, << "a", ".", "j", "p", "g" >>,
      << "a", ".", "j", "p", "e", "g" >>, << "a", ".", "b", "m", "p" >>,
      << "a" >>, << ".", "p", "d", "f" >>, << "a", ".", "p", "d", "f", "/" >>, << >> }

Sizes == { MAX_FILE_SIZE - 1, MAX_FILE_SIZE, MAX_FILE_SIZE + 1 }

Contents == { "pdf", "image", "junk" }

\* every page is PageW x PageH pixels
PageImage == PILImage(PageW, PageH)

\* The predictions client.infer may return for a page (half pixels; the page
\* centre is (PageW, PageH)): portrait 2:3, landscape 3:2, square, one of
\* height 0, one overshooting the right edge, one wholly right of the page,
\* and a second portrait 2:3 with another confidence.
PredSet ==
    { Pred(PageW, PageH, 4, 6, 9),
      Pred(PageW, PageH, 6, 4, 1),
      Pred(PageW, PageH, 4, 4, 5),
      Pred(PageW, PageH, 4, 0, 5),
      Pred(2 * PageW, PageH, 4, 6, 5),
      Pred(2 * PageW + 4, PageH, 2, 3, 5),
      Pred(3, 5, 2, 3, 2) }

InferOutcomes ==
    { [kind |-> "ok", predictions |-> ps] : ps \in SeqUpTo(PredSet, MaxPreds) }
    \cup { [kind |-> "ValueError", predictions |-> << >>],
           [kind |-> "Exception", predictions |-> << >>] }

NoInference == [kind |-> "none", predictions |-> << >>]

\* An entry of the log: the operation, the page it worked on (-1: the upload
\* as a whole) and a number: for "infer" how many predictions came back (-1
\* when the call raised), for "select" how many it was given, for
\* "pages_loaded" how many pages there are.
Ev(op, page, n) == [op |-> op, page |-> page, n |-> n]

NoLabel == CropResult(FALSE, << 0, 0, 0, 0 >>, PILImage(0, 0), FALSE)

Outcome(kind, page, label, prediction, message, error) ==
    [kind |-> kind, page |-> page, label |-> label, prediction |-> prediction,
     message |-> message, error |-> error]

NoOutcome == Outcome("none", -1, NoLabel, NoPred, << >>, NoExc)

\* return cropped, temp_output_path, best_pred
Found(page, label, prediction) ==
    Outcome("Found", page, label, prediction, << "<temp_output_path>" >>, NoExc)

\* return None, message, None
NotFound(message) == Outcome("NotFound", -1, NoLabel, NoPred, message, NoExc)

\* raise error
\* process_uploaded_file, lines 239-243:
\*     except ImageProcessingError: raise
\*     except Exception as e: raise ImageProcessingError(f"File processing failed: ...")
ReRaise(e) ==
    IF e.type = "ImageProcessingError" THEN e ELSE Wrapped("File processing failed: ", e)

Raised(error) == Outcome("Error", -1, NoLabel, NoPred, << >>, ReRaise(error))

(***************************************************************************)
(* api/endpoints.py: what create_labels answers.                           *)
(*   stage "pending": _process_label_file has not returned;                *)
(*   stage "processed": it returned the label, the response is being made; *)
(*   stage "responded": the request was answered (raised: by an            *)
(*   HTTPException) with the status code, success flag and message/detail. *)
(***************************************************************************)
\* The content of the success response besides "success" and "message"; the
\* print_* keys are absent (here FALSE and empty) until _handle_printing ran.
NoData ==
    [image |-> NoLabel, label_dimensions |-> [width |-> 0, height |-> 0], confidence |-> 0,
     print_attempted |-> FALSE, print_success |-> FALSE, print_message |-> << >>,
     print_error |-> << >>]

Response(stage, raised, status, success, detail) ==
    [stage |-> stage, raised |-> raised, status |-> status, success |-> success,
     detail |-> detail, data |-> NoData]

NoResponse == Response("pending", FALSE, 0, FALSE, << >>)

\* raise HTTPException(status_code=..., detail=...)
HTTPException(status_code, detail) ==
    Response("responded", TRUE, status_code, FALSE, detail)

\* An answer to "no label" with the status 404 it had before.
create_error_response_404(message) == Response("responded", FALSE, 404, FALSE, message)

\* _create_error_response: JSONResponse(status_code=200,
\*     content={"success": False, "message": message})
create_error_response(message) == Response("responded", FALSE, 200, FALSE, message)

\* _process_label_file(file_content, filename) inside create_labels' try.
process_label_file(result) ==
    IF result.kind = "Error"
    THEN IF result.error.type = "ImageProcessingError"
         THEN HTTPException(400, result.error.msg)
         ELSE HTTPException(500, << "Processing error: " >> \o result.error.msg)
    ELSE IF result.kind = "NotFound"
    THEN create_error_response(result.message)
    ELSE Response("processed", FALSE, 0, TRUE, << >>)

NoCall == [fn |-> "none", done |-> FALSE]

(***************************************************************************)
(* main.py: the functions of the pipeline before the services were split   *)
(* off.                                                                    *)
(***************************************************************************)
\* aspect_ratio_score of main.pick_best_prediction: ratio = w / h with no test
\* of h, then the least distance to a target ratio.
main_aspect_ratio_score(pred) ==
    IF pred.height = 0
    THEN [raised |-> "ZeroDivisionError", inf |-> FALSE, num |-> 0, den |-> 1]
    ELSE LET dists == [k \in 1..Len(TARGET_RATIOS) |->
                          RatioDistance(pred.width, pred.height, TARGET_RATIOS[k])]
             d == dists[MinIndex(dists)]
         IN [raised |-> "none", inf |-> FALSE, num |-> d.num, den |-> d.den]

\* A main.pick_best_prediction that keeps the last of several equally good
\* predictions.
main_pick_best_prediction_last(predictions) ==
    IF predictions = << >>
    THEN PickResult("ValueError", "min() arg is an empty sequence", 0, NoPred)
    ELSE LET keys == [k \in 1..Len(predictions) |-> main_aspect_ratio_score(predictions[k])]
             bad  == { k \in 1..Len(predictions) : keys[k].raised # "none" }
         IN IF bad # {}
            THEN PickResult(keys[CHOOSE k \in bad : \A j \in bad : k <= j].raised,
                            "", 0, NoPred)
            ELSE LET idx == LastMinIndexFrom(keys, 2, 1)
                 IN PickResult("none", "", idx, predictions[idx])

\* main.pick_best_prediction: min(predictions, key=aspect_ratio_score)
main_pick_best_prediction(predictions) ==
    IF predictions = << >>
    THEN PickResult("ValueError", "min() arg is an empty sequence", 0, NoPred)
    ELSE LET keys == [k \in 1..Len(predictions) |-> main_aspect_ratio_score(predictions[k])]
             bad  == { k \in 1..Len(predictions) : keys[k].raised # "none" }
         IN IF bad # {}
            THEN PickResult(keys[CHOOSE k \in bad : \A j \in bad : k <= j].raised,
                            "", 0, NoPred)
            ELSE LET idx == MinIndex(keys)
                 IN PickResult("none", "", idx, predictions[idx])

\* main.crop_and_save_prediction: the corners are not clamped; Image.crop of a
\* box that leaves the image pads, so the crop has the size of the box.
main_crop_and_save_prediction(image, pred) ==
    LET box == << TruncDiv(2 * pred.x - pred.width, 4),
                  TruncDiv(2 * pred.y - pred.height, 4),
                  TruncDiv(2 * pred.x + pred.width, 4),
                  TruncDiv(2 * pred.y + pred.height, 4) >>
        c   == ImageCrop(image, box)
    IN IF c.raised
       THEN CropResult(TRUE, box, PILImage(0, 0), FALSE)
       ELSE LET rot     == c.image.width > c.image.height
                cropped == IF rot THEN ImageRotate90Expand(c.image) ELSE c.image
            IN IF ImageSaveRaises(cropped)
               THEN CropResult(TRUE, box, PILImage(0, 0), rot)
               ELSE CropResult(FALSE, box, cropped, rot)

\* process_file: except Exception as e: return None, f"Processing error: ...", None
ProcessingError(e) ==
    Outcome("ProcessingError", -1, NoLabel, NoPred, << "Processing error: " >> \o e.msg, NoExc)

\* main.process_file before it is called
NoLegacy ==
    [pc |-> "idle", isPdf |-> FALSE, npages |-> 0, pageIdx |-> 0,
     inferred |-> NoInference, outcome |-> NoOutcome]

(***************************************************************************)
(* services/image_processing.py: ImageProcessor.process_uploaded_file      *)
(***************************************************************************)
Init ==
    /\ pc = "start"
    /\ upload \in [filename : Filenames, size : Sizes, content : Contents,
                  print_label : BOOLEAN]
    /\ isPdf = FALSE
    /\ npages = 0
    /\ pageIdx = 0
    /\ inferred = NoInference
    /\ log = << >>
    /\ files = {}
    /\ outcome = NoOutcome
    /\ http = NoResponse
    /\ reqs = << >>
    /\ answers = << >>
    /\ legacy = NoLegacy
    /\ call = NoCall

\* A process_uploaded_file that opens and writes the temporary input file
\* before it validates the upload.
Validate_after_temp ==
    /\ pc = "start"
    /\ upload.filename # << >>
    /\ LET e == validate_file_content(upload.size, upload.filename, upload.content)
       IN /\ log' = log \o << Ev("create_temp_input", -1, 0),
                              Ev("write_temp_input", -1, 0), Ev("validate", -1, 0) >>
          /\ IF e.type # "none"
             THEN pc' = "done" /\ outcome' = Raised(FromTemporaryFile(e))
             ELSE pc' = "validated" /\ UNCHANGED outcome
    /\ files' = files \cup { "input" }
    /\ UNCHANGED << upload, isPdf, npages, pageIdx, inferred, call, http, reqs, answers, legacy >>

\* self.validate_file_content(file_content, filename); ImageProcessingError is
\* re-raised as it is (line 239).
Validate ==
    /\ pc = "start"
    /\ upload.filename # << >>
    /\ LET e == validate_file_content(upload.size, upload.filename, upload.content)
       IN /\ log' = Append(log, Ev("validate", -1, 0))
          /\ IF e.type # "none"
             THEN pc' = "done" /\ outcome' = Raised(e)
             ELSE pc' = "validated" /\ UNCHANGED outcome
    /\ UNCHANGED << upload, isPdf, npages, pageIdx, inferred, files, call, http, reqs, answers, legacy >>

\* with self.temporary_file(suffix=...) as temp_input_path:
\*     self._write_temp_file(temp_input_path, file_content)
\*     if self._is_pdf_file(filename): ...
CreateTempInput ==
    /\ pc = "validated"
    /\ files' = files \cup { "input" }
    /\ log' = log \o << Ev("create_temp_input", -1, 0), Ev("write_temp_input", -1, 0) >>
    /\ isPdf' = is_pdf_file(upload.filename)
    /\ pc' = "temp"
    /\ UNCHANGED << upload, npages, pageIdx, inferred, outcome, call, http, reqs, answers, legacy >>

\* _process_pdf_file: pages = self.convert_pdf_to_images(pdf_path)
ConvertPdf ==
    /\ pc = "temp" /\ isPdf
    /\ \E n \in 0..MaxPages :
          /\ npages' = n
          /\ log' = log \o << Ev("convert_pdf", -1, 0), Ev("pages_loaded", -1, n) >>
    /\ pageIdx' = 0
    /\ pc' = "scan"
    /\ UNCHANGED << upload, isPdf, inferred, files, outcome, call, http, reqs, answers, legacy >>

\* A conversion that fails on a page and goes on with the pages it has.
ConvertPdfFails_partial ==
    /\ pc = "temp" /\ isPdf
    /\ log' = Append(log, Ev("convert_pdf", -1, 0))
    /\ npages' = 1
    /\ pageIdx' = 0
    /\ pc' = "scan"
    /\ UNCHANGED << upload, isPdf, inferred, files, outcome, call, http, reqs, answers, legacy >>

\* convert_from_path raises: "Failed to convert PDF", wrapped by
\* _process_pdf_file's except and by temporary_file's.
ConvertPdfFails ==
    /\ pc = "temp" /\ isPdf
    /\ log' = Append(log, Ev("convert_pdf", -1, 0))
    /\ outcome' = Raised(FromTemporaryFile(Wrapped("PDF processing failed: ",
                     Wrapped("Failed to convert PDF: ", Exc("Exception", << >>)))))
    /\ pc' = "done"
    /\ UNCHANGED << upload, isPdf, npages, pageIdx, inferred, files, call, http, reqs, answers, legacy >>

\* _process_image_file: image = Image.open(image_path).convert("RGB")
\* PIL opens only bytes that are an image; on %PDF- bytes Image.open raises.
OpenImage ==
    /\ pc = "temp" /\ ~isPdf
    /\ upload.content = "image"
    /\ npages' = 1
    /\ pageIdx' = 0
    /\ log' = log \o << Ev("open_image", -1, 0), Ev("pages_loaded", -1, 1) >>
    /\ pc' = "scan"
    /\ UNCHANGED << upload, isPdf, inferred, files, outcome, call, http, reqs, answers, legacy >>

OpenImageFails ==
    /\ pc = "temp" /\ ~isPdf
    /\ log' = Append(log, Ev("open_image", -1, 0))
    /\ outcome' = Raised(FromTemporaryFile(Wrapped("Image processing failed: ",
                     Exc("Exception", << "<decode error>" >>))))
    /\ pc' = "done"
    /\ UNCHANGED << upload, isPdf, npages, pageIdx, inferred, files, call, http, reqs, answers, legacy >>

\* "PDF processing failed: " or "Image processing failed: " (the except of
\* _process_pdf_file or _process_image_file), then temporary_file's wrapping
\* on the way out of process_uploaded_file's with block.
FromProcessFile(e) ==
    FromTemporaryFile(Wrapped(IF isPdf THEN "PDF processing failed: "
                                       ELSE "Image processing failed: ", e))

\* _try_extract_label_from_image -> detect_labels -> infer_image:
\*     results = self.client.infer(image, model_id=self.model_id)
InferPage ==
    /\ pc = "scan" /\ pageIdx < npages
    /\ \E r \in InferOutcomes :
          /\ inferred' = r
          /\ log' = Append(log, Ev("infer", pageIdx,
                                   IF r.kind = "ok" THEN Len(r.predictions) ELSE -1))
    /\ pc' = "inferred"
    /\ UNCHANGED << upload, isPdf, npages, pageIdx, files, outcome, call, http, reqs, answers, legacy >>

\* The calls of pick_best_prediction detect_labels made, as log entries.
SelectEvents(d) == [k \in 1..Len(d.calls) |-> Ev("select", pageIdx, Len(d.calls[k]))]

\* A page loop that asks inference again for a page that gave no labels.
PageNoLabels_retry ==
    /\ pc = "inferred"
    /\ \E d \in { detect_labels(inferred) } :
          /\ d.raised = "ValueError"
          /\ log' = log \o SelectEvents(d)
          /\ IF isPdf
             THEN /\ pc' = "scan"
                  /\ UNCHANGED << pageIdx, outcome >>
             ELSE /\ outcome' = NotFound(<< "No shipping labels detected",
                                            "in <image_description>", ": " >> \o d.msg)
                  /\ pc' = "done"
                  /\ UNCHANGED pageIdx
    /\ files' = IF isPdf THEN files ELSE temporary_file_exit(files, "input", TRUE, FALSE)
    /\ UNCHANGED << upload, isPdf, npages, inferred, call, http, reqs, answers, legacy >>

\* detect_labels raised ValueError: "except ValueError" (line 315) returns
\* (None, message, None).  In a PDF the loop goes on to the next page; for an
\* image file that tuple is the result.
PageNoLabels ==
    /\ pc = "inferred"
    /\ \E d \in { detect_labels(inferred) } :
          /\ d.raised = "ValueError"
          /\ log' = log \o SelectEvents(d)
          /\ IF isPdf
             THEN /\ pageIdx' = pageIdx + 1
                  /\ pc' = "scan"
                  /\ UNCHANGED outcome
             ELSE /\ outcome' = NotFound(<< "No shipping labels detected",
                                            "in <image_description>", ": " >> \o d.msg)
                  /\ pc' = "done"
                  /\ UNCHANGED pageIdx
    /\ files' = IF isPdf THEN files ELSE temporary_file_exit(files, "input", TRUE, FALSE)
    /\ UNCHANGED << upload, isPdf, npages, inferred, call, http, reqs, answers, legacy >>

\* detect_labels raised anything else: nothing in _try_extract_label_from_image
\* catches it.
PageError ==
    /\ pc = "inferred"
    /\ \E d \in { detect_labels(inferred) } :
          /\ d.raised \notin { "none", "ValueError" }
          /\ log' = log \o SelectEvents(d)
          /\ outcome' = Raised(FromProcessFile(Exc(d.raised, d.msg)))
    /\ pc' = "done"
    /\ UNCHANGED << upload, isPdf, npages, pageIdx, inferred, files, call, http, reqs, answers, legacy >>

\* A page loop that keeps the label it found and goes on to the next page of
\* a PDF instead of returning.
PageExtract_continue ==
    /\ pc = "inferred"
    /\ \E d \in { detect_labels(inferred) } :
       \E c \in { crop_and_save_prediction(PageImage, d.best) } :
          /\ d.raised = "none"
          /\ log' = log \o SelectEvents(d)
                        \o << Ev("create_temp_output", pageIdx, 0), Ev("crop", pageIdx, 0) >>
                        \o (IF c.rotated THEN << Ev("rotate", pageIdx, 0) >> ELSE << >>)
          /\ outcome' = IF c.raised
                        THEN Raised(FromProcessFile(FromTemporaryFile(
                                 Wrapped("Failed to crop image: ", Exc("Exception", << >>)))))
                        ELSE Found(pageIdx, c, d.best)
          /\ IF isPdf /\ ~c.raised /\ pageIdx + 1 < npages
             THEN pc' = "scan" /\ pageIdx' = pageIdx + 1
             ELSE pc' = "done" /\ UNCHANGED pageIdx
          /\ files' = IF isPdf /\ ~c.raised /\ pageIdx + 1 < npages
                      THEN files \cup { "output" }
                      ELSE temporary_file_exit(
                               temporary_file_exit(files \cup { "output" }, "output", FALSE,
                                                   c.raised),
                               "input", TRUE, c.raised)
    /\ UNCHANGED << upload, isPdf, npages, inferred, call, http, reqs, answers, legacy >>

\* detect_labels returned the best prediction:
\*     with self.temporary_file(".png", delete=False) as temp_output_path:
\*         cropped = self.crop_and_save_prediction(image, best_pred, temp_output_path)
\*         return cropped, temp_output_path, best_pred
PageExtract ==
    /\ pc = "inferred"
    /\ \E d \in { detect_labels(inferred) } :
       \E c \in { crop_and_save_prediction(PageImage, d.best) } :
          /\ d.raised = "none"
          /\ log' = log \o SelectEvents(d)
                        \o << Ev("create_temp_output", pageIdx, 0), Ev("crop", pageIdx, 0) >>
                        \o (IF c.rotated THEN << Ev("rotate", pageIdx, 0) >> ELSE << >>)
          /\ outcome' = IF c.raised
                        THEN Raised(FromProcessFile(FromTemporaryFile(
                                 Wrapped("Failed to crop image: ", Exc("Exception", << >>)))))
                        ELSE Found(pageIdx, c, d.best)
          /\ files' = temporary_file_exit(
                          temporary_file_exit(files \cup { "output" }, "output", FALSE, c.raised),
                          "input", TRUE, c.raised)
    /\ pc' = "done"
    /\ UNCHANGED << upload, isPdf, npages, pageIdx, inferred, call, http, reqs, answers, legacy >>

\* A scan that raises when no page of the PDF gave a label.
ScanExhausted_raises ==
    /\ pc = "scan" /\ isPdf /\ pageIdx >= npages
    /\ outcome' = Raised(FromProcessFile(
                      Exc("ValueError", << "No shipping labels detected", "in PDF" >>)))
    /\ pc' = "done"
    /\ UNCHANGED << upload, isPdf, npages, pageIdx, inferred, log, files, call, http, reqs, answers, legacy >>

\* A scan that returns (None, None, None) when no page gave a label.
ScanExhausted_silent ==
    /\ pc = "scan" /\ isPdf /\ pageIdx >= npages
    /\ outcome' = NotFound(<< >>)
    /\ pc' = "done"
    /\ files' = temporary_file_exit(files, "input", TRUE, FALSE)
    /\ UNCHANGED << upload, isPdf, npages, pageIdx, inferred, log, call, http, reqs, answers, legacy >>

\* _process_pdf_file, after the loop:
\*     return None, "No shipping labels detected in PDF", None
ScanExhausted ==
    /\ pc = "scan" /\ isPdf /\ pageIdx >= npages
    /\ outcome' = NotFound(<< "No shipping labels detected", "in PDF" >>)
    /\ pc' = "done"
    /\ files' = temporary_file_exit(files, "input", TRUE, FALSE)
    /\ UNCHANGED << upload, isPdf, npages, pageIdx, inferred, log, call, http, reqs, answers, legacy >>

\* The input file was made with delete=True and temporary_file never closes
\* it (lines 76-81): after the with block raised, the file goes when the
\* exception, kept as the context of the HTTPException, is released, which is
\* after create_labels has raised.
CollectInputTemp ==
    /\ pc = "done"
    /\ http.stage = "responded"
    /\ "input" \in files
    /\ files' = files \ { "input" }
    /\ UNCHANGED << pc, upload, isPdf, npages, pageIdx, inferred, log, outcome, call, http, reqs, answers, legacy >>

\* _build_success_response(processing_result)
build_success_response(result) ==
    [NoData EXCEPT !.image = result.label,
                   !.label_dimensions = [width |-> result.label.width,
                                         height |-> result.label.height],
                   !.confidence = result.prediction.confidence]

(***************************************************************************)
(* services/printing.py: PrintService.print_label_file                     *)
(*   enabled is settings.print_enabled, exists is os.path.exists of the    *)
(*   file, run is how subprocess.run of the print command ended.           *)
(***************************************************************************)
PrintRuns == { "ok", "timeout", "exit_code", "not_found", "unexpected" }

PrintResult(raised, success, message) ==
    [raised |-> raised, success |-> success, message |-> message]

print_label_file(enabled, exists, run) ==
    IF ~enabled
    THEN PrintResult(TRUE, FALSE, << "Printing is disabled in configuration" >>)
    ELSE IF ~exists
    THEN PrintResult(TRUE, FALSE, << "Print file does not exist: " >>)
    ELSE CASE run = "ok" -> PrintResult(FALSE, TRUE, << "Print job submitted successfully using: " >>)
           [] run = "timeout" -> PrintResult(FALSE, FALSE, << "Print command timed out after " >>)
           [] run = "exit_code" ->
                  PrintResult(FALSE, FALSE, << "Print command failed with exit code " >>)
           [] run = "not_found" -> PrintResult(FALSE, FALSE, << "Print command not found: " >>)
           [] OTHER -> PrintResult(FALSE, FALSE, << "Unexpected error during printing: " >>)

\* A _handle_printing that answers a failed print with the print fields only.
handle_printing_drops_label(data, r) ==
    [(IF ~r.raised /\ r.success THEN data ELSE NoData)
        EXCEPT !.print_attempted = TRUE,
               !.print_success = (~r.raised /\ r.success),
               !.print_message = r.message,
               !.print_error = IF ~r.raised /\ r.success THEN << >> ELSE r.message]

\* _handle_printing: response_data.update(...) after print_label_file
\* returned (success, message) or raised PrintingError.
handle_printing(data, r) ==
    [data EXCEPT !.print_attempted = TRUE,
                 !.print_success = (~r.raised /\ r.success),
                 !.print_message = r.message,
                 !.print_error = IF ~r.raised /\ r.success THEN << >> ELSE r.message]

\* _cleanup_temp_file(temp_path): os.unlink when the path exists
cleanup_temp_file(fs, name) == fs \ { name }

\* create_labels: _validate_upload_file(file) raises
\* HTTPException(400, "No filename provided") for an upload without a name.
ValidateUploadFileFails ==
    /\ pc = "start"
    /\ upload.filename = << >>
    /\ http' = HTTPException(400, << "No filename provided" >>)
    /\ pc' = "unprocessed"
    /\ UNCHANGED << upload, isPdf, npages, pageIdx, inferred, log, files, outcome, call, reqs, answers, legacy >>

\* create_labels: processing_result = _process_label_file(...), and its
\* "if not processing_result['success']: return _create_error_response(...)";
\* "except HTTPException: raise" lets the 400 out as it is.
ProcessLabelFile ==
    /\ pc = "done"
    /\ http.stage = "pending"
    /\ http' = process_label_file(outcome)
    /\ UNCHANGED << pc, upload, isPdf, npages, pageIdx, inferred, log, files, outcome, call, reqs, answers, legacy >>

\* create_labels: response_data = _build_success_response(processing_result)
BuildSuccessResponse ==
    /\ http.stage = "processed"
    /\ http' = [http EXCEPT !.stage = "built", !.data = build_success_response(outcome),
                            !.detail = << "Label successfully detected and processed" >>]
    /\ log' = Append(log, Ev("build_response", -1, 0))
    /\ UNCHANGED << pc, upload, isPdf, npages, pageIdx, inferred, files, outcome, call, reqs, answers, legacy >>

\* cropped_image.save(buffer, format='PNG') raises inside
\* _build_success_response: create_labels' "except Exception" answers 500 and
\* the lines after it, printing and _cleanup_temp_file, are not reached.
BuildSuccessResponseFails ==
    /\ http.stage = "processed"
    /\ http' = HTTPException(500, << "Processing error: ", "<encoding error>" >>)
    /\ log' = Append(log, Ev("build_response", -1, -1))
    /\ UNCHANGED << pc, upload, isPdf, npages, pageIdx, inferred, files, outcome, call, reqs, answers, legacy >>

\* A create_labels that cleans the output file up before it prints.
HandlePrinting_after_cleanup ==
    /\ http.stage = "built"
    /\ upload.print_label
    /\ \E enabled \in BOOLEAN, run \in PrintRuns :
          LET r == print_label_file(enabled, FALSE, run)
          IN /\ http' = [http EXCEPT !.stage = "printed",
                                     !.data = handle_printing(http.data, r)]
             /\ log' = log \o << Ev("cleanup", -1, IF "output" \in files THEN 1 ELSE 0),
                                  Ev("print_label_file", -1, 0) >>
    /\ files' = cleanup_temp_file(files, "output")
    /\ UNCHANGED << pc, upload, isPdf, npages, pageIdx, inferred, outcome, call, reqs, answers, legacy >>

\* create_labels: if print_label: _handle_printing(temp_path, filename, response_data)
\* The print_command entry is the subprocess.run of the print command.
HandlePrinting ==
    /\ http.stage = "built"
    /\ upload.print_label
    /\ \E enabled \in BOOLEAN, run \in PrintRuns :
          LET exists == "output" \in files
              r      == print_label_file(enabled, exists, run)
              n      == IF exists THEN 1 ELSE 0
          IN /\ http' = [http EXCEPT !.stage = "printed",
                                     !.data = handle_printing(http.data, r)]
             /\ log' = log \o << Ev("print_label_file", -1, n) >>
                           \o (IF enabled /\ exists THEN << Ev("print_command", -1, n) >>
                                                    ELSE << >>)
    /\ UNCHANGED << pc, upload, isPdf, npages, pageIdx, inferred, files, outcome, call, reqs, answers, legacy >>

\* create_labels: _cleanup_temp_file(processing_result.get("temp_path")) and
\* return JSONResponse(content=response_data)
CleanupAndRespond ==
    /\ \/ http.stage = "printed"
       \/ http.stage = "built" /\ ~upload.print_label
    /\ files' = cleanup_temp_file(files, "output")
    /\ log' = Append(log, Ev("cleanup", -1, IF "output" \in files THEN 1 ELSE 0))
    /\ http' = [http EXCEPT !.stage = "responded", !.status = 200]
    /\ UNCHANGED << pc, upload, isPdf, npages, pageIdx, inferred, outcome, call, reqs, answers, legacy >>

Next ==
    \/ ValidateUploadFileFails
    \/ Validate
    \/ CreateTempInput
    \/ ConvertPdf
    \/ ConvertPdfFails
    \/ OpenImage
    \/ OpenImageFails
    \/ InferPage
    \/ PageNoLabels
    \/ PageError
    \/ PageExtract
    \/ ScanExhausted
    \/ CollectInputTemp
    \/ ProcessLabelFile
    \/ BuildSuccessResponse
    \/ BuildSuccessResponseFails
    \/ HandlePrinting
    \/ CleanupAndRespond

Spec == Init /\ [][Next]_vars

\* A request is one sequential run of create_labels: while a step is left to
\* take, one is taken (every call it makes returns or raises).
SpecFair == Spec /\ WF_vars(Next)

(***************************************************************************)
(* Direct calls of pick_best_prediction on every list of up to MaxSelLen   *)
(* predictions with width and height in 0..MaxSelDim.                      *)
(***************************************************************************)
SelPreds == { Pred(0, 0, w, h, 0) : w \in 0..MaxSelDim, h \in 0..MaxSelDim }

InitSelect ==
    /\ pc = "idle"
    /\ upload = [filename |-> << >>, size |-> 0, content |-> "junk", print_label |-> FALSE]
    /\ isPdf = FALSE
    /\ npages = 0
    /\ pageIdx = 0
    /\ inferred = NoInference
    /\ log = << >>
    /\ files = {}
    /\ outcome = NoOutcome
    /\ http = NoResponse
    /\ reqs = << >>
    /\ answers = << >>
    /\ legacy = NoLegacy
    /\ \E ps \in SeqUpTo(SelPreds, MaxSelLen) :
          call = [fn |-> "pick_best_prediction", done |-> FALSE, arg |-> ps,
                  ret |-> PickResult("none", "", 0, NoPred)]

CallPickBest ==
    /\ call.fn = "pick_best_prediction" /\ ~call.done
    /\ call' = [call EXCEPT !.done = TRUE, !.ret = pick_best_prediction(call.arg)]
    /\ UNCHANGED << pc, upload, isPdf, npages, pageIdx, inferred, log, files, outcome, http, reqs, answers, legacy >>

NextSelect == CallPickBest

SpecSelect == InitSelect /\ [][NextSelect]_vars

(***************************************************************************)
(* Direct calls of crop_and_save_prediction on a PageW x PageH page, for   *)
(* every box with its centre up to MaxOver half pixels beyond the page and *)
(* width and height in 0..MaxBoxDim half pixels.                           *)
(***************************************************************************)
Boxes ==
    { Pred(x, y, w, h, 0) : x \in (-MaxOver)..(2 * PageW + MaxOver),
                            y \in (-MaxOver)..(2 * PageH + MaxOver),
                            w \in 0..MaxBoxDim, h \in 0..MaxBoxDim }

InitExtract ==
    /\ pc = "idle"
    /\ upload = [filename |-> << >>, size |-> 0, content |-> "junk", print_label |-> FALSE]
    /\ isPdf = FALSE
    /\ npages = 0
    /\ pageIdx = 0
    /\ inferred = NoInference
    /\ log = << >>
    /\ files = {}
    /\ outcome = NoOutcome
    /\ http = NoResponse
    /\ reqs = << >>
    /\ answers = << >>
    /\ legacy = NoLegacy
    /\ \E b \in Boxes :
          call = [fn |-> "crop_and_save_prediction", done |-> FALSE,
                  image |-> PageImage, arg |-> b, ret |-> NoLabel]

CallCrop ==
    /\ call.fn = "crop_and_save_prediction" /\ ~call.done
    /\ call' = [call EXCEPT !.done = TRUE,
                            !.ret = crop_and_save_prediction(call.image, call.arg)]
    /\ UNCHANGED << pc, upload, isPdf, npages, pageIdx, inferred, log, files, outcome, http, reqs, answers, legacy >>

NextExtract == CallCrop

SpecExtract == InitExtract /\ [][NextExtract]_vars

(***************************************************************************)
(* Concurrent requests to create_labels.                                   *)
(*   Each request is a run of create_labels of its own; what the requests  *)
(*   share is the temporary directory.  files is the directory: a set of   *)
(*   [name, by], by being the request that wrote the file last.  What a    *)
(*   request's pipeline comes to is given by its scenario (its upload and  *)
(*   what inference answered for it).  The shared inference client is      *)
(*   reconfigured and used inside one call without an await (inference.py  *)
(*   lines 85-87), which is inside RunPipeline.                            *)
(***************************************************************************)
MaxRequests == 2

Requests == 1..MaxRequests

Names == 1..(2 * MaxRequests)

Scenarios == { "rejected", "error", "crop_error", "not_found", "found" }

ScenarioPrediction == Pred(PageW, PageH, 6, 4, 1)

\* What process_uploaded_file returns or raises in each scenario.
ScenarioOutcome(s) ==
    CASE s = "rejected" ->
             Raised(validate_file_content(MAX_FILE_SIZE + 1, << "a" >>, "junk"))
      [] s = "error" ->
             Raised(FromProcessFile(Exc("Exception", << "<inference error>" >>)))
      [] s = "crop_error" ->
             Raised(FromProcessFile(FromTemporaryFile(
                 Wrapped("Failed to crop image: ", Exc("Exception", << >>)))))
      [] s = "not_found" ->
             NotFound(<< "No shipping labels detected", "in <image_description>", ": " >>)
      [] OTHER ->
             Found(0, crop_and_save_prediction(PageImage, ScenarioPrediction),
                   ScenarioPrediction)

NamesOn(fs) == { f.name : f \in fs }

\* A name every request gets for its temporary files.
NamedTemporaryFile_fixed(fs) == 1

\* tempfile.NamedTemporaryFile(dir=self.temp_dir, ...): a name that no file
\* of the directory has (the lowest free one here).
NamedTemporaryFile(fs) ==
    CHOOSE n \in Names : /\ n \notin NamesOn(fs)
                         /\ \A m \in Names \ NamesOn(fs) : n <= m

WriteFile(fs, n, r) == { f \in fs : f.name # n } \cup { [name |-> n, by |-> r] }

Unlink(fs, n) == { f \in fs : f.name # n }

\* The file under name n is one that another request wrote.
Foreign(fs, n, r) == \E f \in fs : f.name = n /\ f.by # r

NoPrintChoice == [enabled |-> FALSE, run |-> "none"]

NewRequest(s, p) ==
    [pc |-> "new", scenario |-> s, print_label |-> p, print |-> NoPrintChoice,
     input |-> 0, output |-> 0, http |-> NoResponse, foreign |-> FALSE]

InitConcurrent ==
    /\ pc = "idle"
    /\ upload = [filename |-> << >>, size |-> 0, content |-> "junk", print_label |-> FALSE]
    /\ isPdf = FALSE
    /\ npages = 0
    /\ pageIdx = 0
    /\ inferred = NoInference
    /\ log = << >>
    /\ files = {}
    /\ outcome = NoOutcome
    /\ call = NoCall
    /\ http = NoResponse
    /\ reqs \in [Requests -> { NewRequest(s, p) : s \in Scenarios, p \in BOOLEAN }]
    /\ answers = << >>
    /\ legacy = NoLegacy

\* create_labels up to "file_content = await file.read()", where another
\* request can run.
ReceiveUpload(r) ==
    /\ reqs[r].pc = "new"
    /\ reqs' = [reqs EXCEPT ![r].pc = "read"]
    /\ UNCHANGED << pc, upload, isPdf, npages, pageIdx, inferred, log, files, outcome, call,
                    http, answers, legacy >>

\* process_uploaded_file: validate_file_content, then the temporary input
\* file is made and written.
OpenInput(r) ==
    /\ reqs[r].pc = "read"
    /\ IF reqs[r].scenario = "rejected"
       THEN /\ reqs' = [reqs EXCEPT ![r].pc = "final",
                           ![r].http = process_label_file(ScenarioOutcome("rejected"))]
            /\ UNCHANGED files
       ELSE \E n \in { NamedTemporaryFile(files) } :
               /\ files' = WriteFile(files, n, r)
               /\ reqs' = [reqs EXCEPT ![r].pc = "input", ![r].input = n,
                              ![r].foreign = reqs[r].foreign \/ Foreign(files, n, r)]
    /\ UNCHANGED << pc, upload, isPdf, npages, pageIdx, inferred, log, outcome, call, http, answers, legacy >>

\* _process_pdf_file / _process_image_file on the input file: the pages are
\* read from it; when a label is selected the output file is made
\* (delete=False) and the crop saved to it; when the call returns, the input
\* file goes (delete=True), when it raises, the input file stays for now.
RunPipeline(r) ==
    /\ reqs[r].pc = "input"
    /\ LET q           == reqs[r]
           makesOutput == q.scenario \in { "crop_error", "found" }
           returns     == q.scenario \in { "not_found", "found" }
       IN \E n \in { NamedTemporaryFile(files) } :
          \E written \in { IF makesOutput THEN WriteFile(files, n, r) ELSE files } :
             /\ files' = IF returns THEN Unlink(written, q.input) ELSE written
             /\ reqs' = [reqs EXCEPT
                           ![r].pc = "piped",
                           ![r].output = IF makesOutput THEN n ELSE 0,
                           ![r].foreign = \/ q.foreign
                                          \/ q.input \notin NamesOn(files)
                                          \/ Foreign(files, q.input, r)
                                          \/ makesOutput /\ Foreign(files, n, r)
                                          \/ returns /\ Foreign(written, q.input, r)]
    /\ UNCHANGED << pc, upload, isPdf, npages, pageIdx, inferred, log, outcome, call, http, answers, legacy >>

\* create_labels after process_uploaded_file: the error or not-found answer,
\* or the response built, the label printed from the output file when
\* print_label is set, the output file cleaned up and the response returned.
Answer(r) ==
    /\ reqs[r].pc = "piped"
    /\ LET q == reqs[r]
           o == ScenarioOutcome(q.scenario)
           h == process_label_file(o)
       IN IF h.stage # "processed"
          THEN /\ reqs' = [reqs EXCEPT ![r].http = h,
                              ![r].pc = IF o.kind = "Error" THEN "responded" ELSE "final"]
               /\ UNCHANGED files
          ELSE \E enabled \in BOOLEAN, run \in { "ok", "exit_code" } :
                  LET exists == q.output \in NamesOn(files)
                      built  == build_success_response(o)
                      data   == IF q.print_label
                                THEN handle_printing(built,
                                         print_label_file(enabled, exists, run))
                                ELSE built
                  IN /\ files' = Unlink(files, q.output)
                     /\ reqs' = [reqs EXCEPT
                                   ![r].pc = "final",
                                   ![r].print = IF q.print_label
                                                THEN [enabled |-> enabled, run |-> run]
                                                ELSE NoPrintChoice,
                                   ![r].foreign = q.foreign \/ Foreign(files, q.output, r),
                                   ![r].http =
                                       [h EXCEPT !.stage = "responded", !.status = 200,
                                                 !.detail = << "Label successfully detected and processed" >>,
                                                 !.data = data]]
    /\ UNCHANGED << pc, upload, isPdf, npages, pageIdx, inferred, log, outcome, call, http, answers, legacy >>

\* The exception of a failed run is released: its NamedTemporaryFile object
\* is finalized and the input file removed.
FinalizeInput(r) ==
    /\ reqs[r].pc = "responded"
    /\ files' = Unlink(files, reqs[r].input)
    /\ reqs' = [reqs EXCEPT ![r].pc = "final",
                   ![r].foreign = reqs[r].foreign \/ Foreign(files, reqs[r].input, r)]
    /\ UNCHANGED << pc, upload, isPdf, npages, pageIdx, inferred, log, outcome, call, http, answers, legacy >>

NextConcurrent ==
    \E r \in Requests :
        \/ ReceiveUpload(r)
        \/ OpenInput(r)
        \/ RunPipeline(r)
        \/ Answer(r)
        \/ FinalizeInput(r)

SpecConcurrent == InitConcurrent /\ [][NextConcurrent]_vars

(***************************************************************************)
(* main.process_file and ImageProcessor.process_uploaded_file called on    *)
(* the same upload, one after the other.  Both rasterize the same bytes at *)
(* 300 dpi and ask the same model with the same confidence threshold, so   *)
(* the pages and what client.infer answers for each page are the same for  *)
(* the two: answers[i + 1] for page i.                                     *)
(***************************************************************************)
ComparePreds ==
    { Pred(PageW, PageH, 4, 6, 9),
      Pred(PageW, PageH, 6, 4, 1),
      Pred(PageW, PageH, 4, 0, 5),
      Pred(2 * PageW, PageH, 4, 6, 5),
      Pred(3, 5, 2, 3, 2) }

CompareOutcomes ==
    { [kind |-> "ok", predictions |-> ps] : ps \in SeqUpTo(ComparePreds, MaxPreds) }
    \cup { [kind |-> "ValueError", predictions |-> << >>],
           [kind |-> "Exception", predictions |-> << >>] }

CompareFilenames == { << "a", ".", "p", "d", "f" >>, << "a", ".", "j", "p", "g" >> }

InitCompare ==
    /\ pc = "start"
    /\ upload \in [filename : CompareFilenames, size : { MAX_FILE_SIZE },
                   content : Contents, print_label : { FALSE }]
    /\ answers \in SeqUpTo(CompareOutcomes, MaxPages)
    /\ is_pdf_file(upload.filename) \/ Len(answers) = 1
    /\ isPdf = FALSE
    /\ npages = 0
    /\ pageIdx = 0
    /\ inferred = NoInference
    /\ log = << >>
    /\ files = {}
    /\ outcome = NoOutcome
    /\ http = NoResponse
    /\ reqs = << >>
    /\ legacy = NoLegacy
    /\ call = NoCall

\* convert_pdf_to_images on the upload: its pages are those the answers are for
ConvertPdfPages == ConvertPdf /\ npages' = Len(answers)

\* infer_image on page pageIdx of the upload
InferPageAnswered == InferPage /\ inferred' = answers[pageIdx + 1]

\* process_file: with tempfile.NamedTemporaryFile(delete=True, ...) as temp_input:
\*     temp_input.write(file_content); temp_input.flush()
MainCreateTempInput ==
    /\ pc = "done" /\ legacy.pc = "idle"
    /\ legacy' = [legacy EXCEPT !.pc = "temp",
                                !.isPdf = EndsWith(Lower(upload.filename), DotPdf)]
    /\ files' = files \cup { "main_input" }
    /\ UNCHANGED << pc, upload, isPdf, npages, pageIdx, inferred, log, outcome, call, http,
                    reqs, answers >>

\* pages = convert_from_path(temp_input.name, dpi=300)
MainConvertPdf ==
    /\ legacy.pc = "temp" /\ legacy.isPdf
    /\ upload.content = "pdf"
    /\ legacy' = [legacy EXCEPT !.pc = "scan", !.npages = Len(answers), !.pageIdx = 0]
    /\ UNCHANGED << pc, upload, isPdf, npages, pageIdx, inferred, log, files, outcome, call,
                    http, reqs, answers >>

\* convert_from_path raises; the with block of temp_input is left, which
\* closes and so deletes the file.
MainConvertPdfFails ==
    /\ legacy.pc = "temp" /\ legacy.isPdf
    /\ legacy' = [legacy EXCEPT !.pc = "done",
                                !.outcome = ProcessingError(Exc("Exception", << >>))]
    /\ files' = files \ { "main_input" }
    /\ UNCHANGED << pc, upload, isPdf, npages, pageIdx, inferred, log, outcome, call, http,
                    reqs, answers >>

\* image = Image.open(temp_input.name).convert("RGB")
MainOpenImage ==
    /\ legacy.pc = "temp" /\ ~legacy.isPdf
    /\ upload.content = "image"
    /\ legacy' = [legacy EXCEPT !.pc = "scan", !.npages = 1, !.pageIdx = 0]
    /\ UNCHANGED << pc, upload, isPdf, npages, pageIdx, inferred, log, files, outcome, call,
                    http, reqs, answers >>

MainOpenImageFails ==
    /\ legacy.pc = "temp" /\ ~legacy.isPdf
    /\ legacy' = [legacy EXCEPT !.pc = "done",
                                !.outcome = ProcessingError(Exc("Exception",
                                                                << "<decode error>" >>))]
    /\ files' = files \ { "main_input" }
    /\ UNCHANGED << pc, upload, isPdf, npages, pageIdx, inferred, log, outcome, call, http,
                    reqs, answers >>

\* result = infer_image_pil(page): an exception of client.infer goes to the
\* except of process_file.
MainInferPage ==
    /\ legacy.pc = "scan" /\ legacy.pageIdx < legacy.npages
    /\ LET r == answers[legacy.pageIdx + 1]
       IN IF r.kind = "ok"
          THEN /\ legacy' = [legacy EXCEPT !.pc = "inferred", !.inferred = r]
               /\ UNCHANGED files
          ELSE /\ legacy' = [legacy EXCEPT !.pc = "done",
                                           !.outcome = ProcessingError(Exc(r.kind, << >>))]
               /\ files' = files \ { "main_input" }
    /\ UNCHANGED << pc, upload, isPdf, npages, pageIdx, inferred, log, outcome, call, http,
                    reqs, answers >>

\* if result["predictions"]: (PDF) / if not result["predictions"]: (image)
\* with no predictions: the next page of a PDF, or
\* return None, "No labels detected in image", None
MainPageNoLabels ==
    /\ legacy.pc = "inferred"
    /\ legacy.inferred.predictions = << >>
    /\ IF legacy.isPdf
       THEN /\ legacy' = [legacy EXCEPT !.pc = "scan", !.pageIdx = legacy.pageIdx + 1]
            /\ UNCHANGED files
       ELSE /\ legacy' = [legacy EXCEPT !.pc = "done",
                              !.outcome = NotFound(<< "No labels detected in image" >>)]
            /\ files' = files \ { "main_input" }
    /\ UNCHANGED << pc, upload, isPdf, npages, pageIdx, inferred, log, outcome, call, http,
                    reqs, answers >>

\* best_pred = pick_best_prediction(result["predictions"])
\* with tempfile.NamedTemporaryFile(delete=False, suffix=".png") as temp_output:
\*     cropped = crop_and_save_prediction(page, best_pred, temp_output.name)
\*     return cropped, temp_output.name, best_pred
MainPageExtract ==
    /\ legacy.pc = "inferred"
    /\ legacy.inferred.predictions # << >>
    /\ \E b \in { main_pick_best_prediction(legacy.inferred.predictions) } :
          IF b.raised # "none"
          THEN /\ legacy' = [legacy EXCEPT !.pc = "done",
                                 !.outcome = ProcessingError(Exc(b.raised, << b.msg >>))]
               /\ files' = files \ { "main_input" }
          ELSE \E c \in { main_crop_and_save_prediction(PageImage, b.value) } :
               /\ legacy' = [legacy EXCEPT !.pc = "done",
                                 !.outcome = IF c.raised
                                             THEN ProcessingError(Exc("Exception", << >>))
                                             ELSE Found(legacy.pageIdx, c, b.value)]
               /\ files' = (files \cup { "main_output" }) \ { "main_input" }
    /\ UNCHANGED << pc, upload, isPdf, npages, pageIdx, inferred, log, outcome, call, http,
                    reqs, answers >>

\* return None, "No labels detected in PDF", None
MainScanExhausted ==
    /\ legacy.pc = "scan" /\ legacy.isPdf /\ legacy.pageIdx >= legacy.npages
    /\ legacy' = [legacy EXCEPT !.pc = "done",
                                !.outcome = NotFound(<< "No labels detected in PDF" >>)]
    /\ files' = files \ { "main_input" }
    /\ UNCHANGED << pc, upload, isPdf, npages, pageIdx, inferred, log, outcome, call, http,
                    reqs, answers >>

NextCompare ==
    \/ Validate
    \/ CreateTempInput
    \/ ConvertPdfPages
    \/ ConvertPdfFails
    \/ OpenImage
    \/ OpenImageFails
    \/ InferPageAnswered
    \/ PageNoLabels
    \/ PageError
    \/ PageExtract
    \/ ScanExhausted
    \/ MainCreateTempInput
    \/ MainConvertPdf
    \/ MainConvertPdfFails
    \/ MainOpenImage
    \/ MainOpenImageFails
    \/ MainInferPage
    \/ MainPageNoLabels
    \/ MainPageExtract
    \/ MainScanExhausted

SpecCompare == InitCompare /\ [][NextCompare]_vars

(***************************************************************************)
(* Properties of pick_best_prediction (checked under SpecSelect).          *)
(***************************************************************************)
\* score(p) < score(q) for score(p) = min(|w/h - 4/6|, |w/h - 6/4|), and
\* +infinity when h = 0.  Over the denominator 12h the two distances are
\* 2|6w - 4h| and 3|4w - 6h|.
ScoreNumerator(p) ==
    Min2(2 * Abs(6 * p.width - 4 * p.height), 3 * Abs(4 * p.width - 6 * p.height))

StatedScoreLess(p, q) ==
    IF p.height = 0 THEN FALSE
    ELSE IF q.height = 0 THEN TRUE
    ELSE ScoreNumerator(p) * q.height < ScoreNumerator(q) * p.height

PickBestReturned == call.fn = "pick_best_prediction" /\ call.done

C8_ZeroHeightNeverWins ==
    (PickBestReturned /\ \E j \in 1..Len(call.arg) : call.arg[j].height = 0) =>
        /\ call.ret.raised = "none"
        /\ (\E j \in 1..Len(call.arg) : call.arg[j].height # 0)
               => call.ret.value.height # 0

\* C8's case: the list starts with a prediction of height 0 and a later one
\* has a non-zero height.
C8_Witness ==
    /\ PickBestReturned
    /\ Len(call.arg) >= 2
    /\ call.arg[1].height = 0
    /\ call.arg[2].height # 0
    /\ call.ret.index = 2

(***************************************************************************)
(* Properties of crop_and_save_prediction (checked under SpecExtract).     *)
(***************************************************************************)
CropReturned == call.fn = "crop_and_save_prediction" /\ call.done

\* The box of prediction p, in quarter pixels: x - w/2, y - h/2, x + w/2, y + h/2.
QuarterBox(p) == << 2 * p.x - p.width, 2 * p.y - p.height,
                    2 * p.x + p.width, 2 * p.y + p.height >>

\* A corner of the box lies beyond the page.
ExceedsPage(p, image) ==
    LET q == QuarterBox(p)
    IN \/ q[1] < 0 \/ q[2] < 0
       \/ q[3] > 4 * image.width \/ q[4] > 4 * image.height

\* C10: for a box (of at least one pixel each way) whose corners exceed the
\* page bounds, crop_and_save_prediction does not raise, and the label's
\* width and height are within the page's and not negative.
C10_ExtractNeverRaisesBeyondPage ==
    (/\ CropReturned
     /\ call.arg.width >= 2 /\ call.arg.height >= 2
     /\ ExceedsPage(call.arg, call.image)) =>
        /\ ~call.ret.raised
        /\ call.ret.width >= 0 /\ call.ret.height >= 0
        /\ call.ret.width <= Max2(call.image.width, call.image.height)
        /\ call.ret.height <= Max2(call.image.width, call.image.height)

(***************************************************************************)
(* Properties of the page scan (checked under Spec).                       *)
(***************************************************************************)
\* operations that work on one page
PageOps == { "infer", "select", "create_temp_output", "crop", "rotate" }

IsInfer(e) == e.op = "infer"

\* the inference calls made so far, in order
Inferences == SelectSeq(log, IsInfer)

\* The scan stopped at page k, the page of log entry i: nothing was done on a
\* later page and the scan is not going on.
StoppedAt(i) ==
    /\ \A j \in DOMAIN log : log[j].op \in PageOps => log[j].page <= log[i].page
    /\ pc \in { "inferred", "done" }

CropFailed == outcome.kind = "Error" /\ Contains(outcome.error.msg, "Failed to crop image: ")

\* C1 as stated: once inference of page k of a PDF has returned a non-empty
\* list, the pipeline returns Found built from page k and nothing is done on a
\* later page.
C1_FirstViablePageReturnsFound ==
    isPdf => \A i \in DOMAIN log :
        (log[i].op = "infer" /\ log[i].n > 0) =>
            /\ StoppedAt(i)
            /\ pc = "done" => (outcome.kind = "Found" /\ outcome.page = log[i].page)

\* C1, amended: once inference of page k of a PDF has returned a non-empty
\* list, the scan stops at page k: the pipeline returns Found built from page
\* k, or raises when cropping or saving the selected box fails, and nothing
\* is done on a later page.
C1_FirstViablePageEndsScan ==
    isPdf => \A i \in DOMAIN log :
        (log[i].op = "infer" /\ log[i].n > 0) =>
            /\ StoppedAt(i)
            /\ pc = "done" => \/ outcome.kind = "Found" /\ outcome.page = log[i].page
                              \/ CropFailed

\* C1's case: a PDF of several pages whose first page gave a label.
C1_Witness ==
    /\ isPdf /\ npages >= 2 /\ pc = "done"
    /\ outcome.kind = "Found" /\ outcome.page = 0
    /\ Len(Inferences) = 1

\* C2: when inference of page k of a multi-page PDF fails, no later page is
\* passed to inference and the scan ends in an error.
C2_InferenceErrorAbortsScan ==
    (isPdf /\ npages >= 2) => \A i \in DOMAIN log :
        (log[i].op = "infer" /\ log[i].n < 0) =>
            /\ \A j \in DOMAIN log : log[j].op = "infer" => log[j].page <= log[i].page
            /\ pc = "done" => outcome.kind = "Error"

\* C3: inference is called on pages 0, 1, 2, ... in that order, once each;
\* whatever is done on a page is done after its inference and before the
\* inference of any later page.
C3_PagesInOrderOnceEach ==
    /\ \A j \in DOMAIN Inferences : Inferences[j].page = j - 1
    /\ \A k \in DOMAIN log : \A j \in DOMAIN log :
          (log[j].op = "infer" /\ log[k].op \in PageOps /\ log[k].page < log[j].page)
              => k < j
    /\ \A k \in DOMAIN log :
          (log[k].op \in PageOps /\ log[k].op # "infer") =>
              \E j \in 1..(k - 1) : log[j].op = "infer" /\ log[j].page = log[k].page

\* C3's case: two pages were inferred and the second was selected from and
\* cropped.
C3_Witness ==
    /\ pc = "done"
    /\ Len(Inferences) >= 2
    /\ \E k \in DOMAIN log : log[k].op = "crop" /\ log[k].page = 1
    /\ \E k \in DOMAIN log : log[k].op = "select" /\ log[k].page = 1

\* The first of the predictions of minimal stated score.
StatedBest(ps) ==
    ps[CHOOSE i \in DOMAIN ps :
          /\ \A j \in DOMAIN ps : ~StatedScoreLess(ps[j], ps[i])
          /\ \A j \in 1..(i - 1) : StatedScoreLess(ps[i], ps[j])]

\* A finished run on a PDF in which every page before the last one inferred
\* returned no predictions and the last one returned some.
EmptyPagesThenLabels ==
    /\ isPdf /\ pc = "done"
    /\ Len(Inferences) >= 1
    /\ \A j \in 1..(Len(Inferences) - 1) : Inferences[j].n = 0
    /\ Inferences[Len(Inferences)].n > 0

\* Found, with the label cropped from page k by the best of its predictions.
FoundBestOfPage(k) ==
    /\ outcome.kind = "Found"
    /\ outcome.page = k
    /\ outcome.prediction = StatedBest(inferred.predictions)
    /\ outcome.label.box = ClampBox(CornerBox(outcome.prediction), PageImage)
    /\ ~outcome.label.raised

NoCropBefore(k) ==
    \A j \in DOMAIN log : log[j].op \in { "crop", "rotate" } => log[j].page >= k

\* C4 as stated: pages before k empty and page k not: Found, cropped from
\* page k by the best prediction of page k; no crop or rotate before page k.
C4_EmptyPagesSkippedThenFound ==
    EmptyPagesThenLabels =>
        LET k == Inferences[Len(Inferences)].page
        IN FoundBestOfPage(k) /\ NoCropBefore(k)

\* C4, amended: the same, or an error when cropping or saving the box of the
\* best prediction of page k fails.
C4_EmptyPagesSkippedThenFoundOrCropError ==
    EmptyPagesThenLabels =>
        LET k == Inferences[Len(Inferences)].page
        IN /\ FoundBestOfPage(k) \/ CropFailed
           /\ NoCropBefore(k)

\* C4's case: page 0 empty, page 1 with two predictions of which the second
\* is the better one, and the label found.
C4_Witness ==
    /\ EmptyPagesThenLabels
    /\ Len(Inferences) = 2
    /\ outcome.kind = "Found" /\ outcome.page = 1
    /\ Len(inferred.predictions) = 2
    /\ outcome.prediction = inferred.predictions[2]
    /\ outcome.prediction # inferred.predictions[1]

\* A finished run in which every page was inferred and returned no predictions.
AllPagesEmpty ==
    /\ pc = "done"
    /\ \E k \in DOMAIN log : log[k].op = "pages_loaded" /\ log[k].n = Len(Inferences)
    /\ \A j \in DOMAIN Inferences : Inferences[j].n = 0

\* C5: when every page returns an empty list the pipeline returns NotFound,
\* its message saying that no shipping labels were detected, "in PDF" for a
\* PDF and "in image" for an image file.
C5_AllPagesEmptyIsNotFound ==
    AllPagesEmpty =>
        /\ outcome.kind = "NotFound"
        /\ Contains(outcome.message, "No shipping labels detected")
        /\ Contains(outcome.message, IF isPdf THEN "in PDF" ELSE "in image")

\* C5's case: a PDF of two pages, both without predictions.
C5_Witness ==
    /\ AllPagesEmpty /\ isPdf /\ npages = 2 /\ Len(Inferences) = 2

ValidationError == validate_file_content(upload.size, upload.filename, upload.content)

\* (pc = "unprocessed": the request had no filename and create_labels never
\* called the pipeline.)
\* C6: when validation rejects the upload, the run ends with the validation
\* error, and nothing but the validation is ever done: no temporary file, no
\* page loaded, no inference.
C6_RejectedUploadTouchesNothing ==
    (ValidationError.type # "none" /\ pc # "unprocessed") =>
        /\ files = {}
        /\ \A k \in DOMAIN log : log[k].op = "validate"
        /\ pc \in { "start", "done" }
        /\ pc = "done" => (outcome.kind = "Error" /\ outcome.error = ValidationError)

\* C6's case: a .bmp upload of allowed size was rejected.
C6_Witness ==
    /\ pc = "done"
    /\ PathSuffix(upload.filename) = << ".", "b", "m", "p" >>
    /\ upload.size <= MAX_FILE_SIZE
    /\ outcome.kind = "Error"
    /\ outcome.error.msg = << "File extension not allowed" >>

\* C9: pick_best_prediction raises ValueError on the empty list; in a
\* pipeline run it is never called with one, and its "No predictions
\* provided" never shows in what the run returns or raises.
C9_SelectionNeverOnEmptyList ==
    /\ pick_best_prediction(<< >>).raised = "ValueError"
    /\ pick_best_prediction(<< >>).msg = "No predictions provided"
    /\ \A k \in DOMAIN log : log[k].op = "select" => log[k].n > 0
    /\ ~Contains(outcome.message, "No predictions provided")
    /\ ~Contains(outcome.error.msg, "No predictions provided")

\* C9's case: a page came back with no predictions and the run went on to
\* its NotFound.
C9_Witness ==
    /\ pc = "done" /\ outcome.kind = "NotFound"
    /\ \E k \in DOMAIN log : log[k].op = "infer" /\ log[k].n = 0

(***************************************************************************)
(* More properties of crop_and_save_prediction (checked under SpecExtract). *)
(* call.ret.box is the rectangle handed to Image.crop.                     *)
(***************************************************************************)
\* C11: the rectangle passed to crop has all four corners inside the page:
\* 0 <= left, right <= page.width and 0 <= top, bottom <= page.height.
C11_CropBoxWithinPage ==
    CropReturned =>
        /\ 0 <= call.ret.box[1] /\ call.ret.box[1] <= call.image.width
        /\ 0 <= call.ret.box[3] /\ call.ret.box[3] <= call.image.width
        /\ 0 <= call.ret.box[2] /\ call.ret.box[2] <= call.image.height
        /\ 0 <= call.ret.box[4] /\ call.ret.box[4] <= call.image.height

\* The box lies fully inside the page (corners compared in quarter pixels).
InsidePage(p, image) ==
    LET q == QuarterBox(p)
    IN /\ q[1] >= 0 /\ q[2] >= 0
       /\ q[3] <= 4 * image.width /\ q[4] <= 4 * image.height

\* Width and height are whole numbers of pixels, at least one.
WholePixels(p) ==
    /\ p.width >= 2 /\ p.width % 2 = 0
    /\ p.height >= 2 /\ p.height % 2 = 0

\* Python's round() of a length of n half pixels: halves go to the even side.
PyRound(n) ==
    IF n % 2 = 0 THEN n \div 2
    ELSE IF (n \div 2) % 2 = 0 THEN n \div 2 ELSE (n \div 2) + 1

SameUpToSwap(a, b, c, d) == (a = c /\ b = d) \/ (a = d /\ b = c)

\* C12 as stated: a box (of at least one pixel each way) fully inside the
\* page gives a crop of round(width) x round(height) pixels, up to the swap
\* of a rotation.
C12_InsideBoxHasRoundedSize ==
    (/\ CropReturned /\ InsidePage(call.arg, call.image)
     /\ call.arg.width >= 2 /\ call.arg.height >= 2) =>
        /\ ~call.ret.raised
        /\ SameUpToSwap(call.ret.width, call.ret.height,
                        PyRound(call.arg.width), PyRound(call.arg.height))

\* C12, amended: a box fully inside the page whose width and height are
\* whole numbers of pixels gives a crop of exactly width x height pixels, up
\* to the swap of a rotation, wherever its centre is.
C12_InsideWholePixelBoxHasExactSize ==
    (CropReturned /\ InsidePage(call.arg, call.image) /\ WholePixels(call.arg)) =>
        /\ ~call.ret.raised
        /\ SameUpToSwap(call.ret.width, call.ret.height,
                        call.arg.width \div 2, call.arg.height \div 2)

\* C12's case: a landscape box of whole pixels inside the page, its centre on
\* a half pixel, cropped and rotated.
C12_Witness ==
    /\ CropReturned /\ InsidePage(call.arg, call.image) /\ WholePixels(call.arg)
    /\ call.arg.x % 2 = 1 /\ call.arg.y % 2 = 1
    /\ call.arg.width > call.arg.height
    /\ ~call.ret.raised /\ call.ret.rotated

\* C13: a label that extract returns is never wider than tall, and the crop
\* was rotated exactly when the cropped rectangle was wider than tall.
C13_LabelIsPortrait ==
    (CropReturned /\ ~call.ret.raised) =>
        /\ call.ret.height >= call.ret.width
        /\ call.ret.rotated <=>
               (call.ret.box[3] - call.ret.box[1] > call.ret.box[4] - call.ret.box[2])
        /\ SameUpToSwap(call.ret.width, call.ret.height,
                        call.ret.box[3] - call.ret.box[1], call.ret.box[4] - call.ret.box[2])

\* C13's case: a landscape rectangle was cropped and came back rotated.
C13_Witness ==
    /\ CropReturned /\ ~call.ret.raised /\ call.ret.rotated
    /\ call.ret.height > call.ret.width

\* C14 as stated: for a box with width <= height the crop is returned
\* unrotated.
C14_PortraitBoxNotRotated ==
    (CropReturned /\ ~call.ret.raised /\ call.arg.width <= call.arg.height) =>
        ~call.ret.rotated

\* C14, amended: for a box with width <= height that lies fully inside the
\* page and whose width and height are whole numbers of pixels the crop is
\* returned unrotated, with the box's width and height; any other box with
\* width <= height is rotated only when the rectangle cropped for it
\* (truncated, clamped) is wider than tall.
C14_InsideWholePixelPortraitBoxNotRotated ==
    (CropReturned /\ call.arg.width <= call.arg.height) =>
        /\ (InsidePage(call.arg, call.image) /\ WholePixels(call.arg)) =>
               /\ ~call.ret.raised /\ ~call.ret.rotated
               /\ call.ret.width = call.arg.width \div 2
               /\ call.ret.height = call.arg.height \div 2
        /\ (~call.ret.raised /\ call.ret.rotated) =>
               call.ret.box[3] - call.ret.box[1] > call.ret.box[4] - call.ret.box[2]

\* C14's case: a square box of whole pixels inside the page, its centre on a
\* half pixel, returned as it was cropped.
C14_Witness ==
    /\ CropReturned /\ InsidePage(call.arg, call.image) /\ WholePixels(call.arg)
    /\ call.arg.width = call.arg.height
    /\ call.arg.x % 2 = 1
    /\ ~call.ret.raised /\ ~call.ret.rotated

\* No corner was changed by the clamp.
NoClamping == call.ret.box = CornerBox(call.arg)

ClampThenTruncate(v, limit) == TruncDiv(Min2(4 * limit, Max2(0, v)), 4)

\* C16: the rectangle cropped is the one got by computing the four corners
\* without truncation, clamping them to the page bounds and truncating last.
C16_TruncationAfterClamping ==
    CropReturned =>
        LET q == QuarterBox(call.arg)
        IN call.ret.box = << ClampThenTruncate(q[1], call.image.width),
                             ClampThenTruncate(q[2], call.image.height),
                             ClampThenTruncate(q[3], call.image.width),
                             ClampThenTruncate(q[4], call.image.height) >>

(***************************************************************************)
(* Properties of validation and of the errors of a run (checked under Spec). *)
(***************************************************************************)
\* validate_file_content has been called.
Validated == Len(log) >= 1

\* The run went on after validation / ended with validation's error.
Accepted == pc = "validated" \/ Len(log) > 1

Rejected == pc = "done" /\ Len(log) = 1 /\ outcome.kind = "Error"

RejectedWith(phrase) == Rejected /\ outcome.error.msg = << phrase >>

\* C17: validation fails with the size error exactly when the upload is
\* longer than the maximum; an upload of exactly the maximum passes the size
\* check; an oversize upload gets the size error whatever its extension and
\* content are.
C17_SizeErrorIffOverMaximum ==
    Validated =>
        /\ RejectedWith("File size exceeds maximum allowed size")
               <=> upload.size > MAX_FILE_SIZE
        /\ \A k \in DOMAIN log : log[k].op = "validate" => k = 1

\* C17's case: an oversize upload whose extension and content are bad too is
\* rejected for its size.
C17_Witness ==
    /\ upload.size = MAX_FILE_SIZE + 1
    /\ upload.filename = << "a", ".", "b", "m", "p" >>
    /\ upload.content = "junk"
    /\ RejectedWith("File size exceeds maximum allowed size")

\* Upper and lower case of a letter count as the same letter.
SameLetter(c) ==
    IF c \in { "p", "P" } THEN "p"
    ELSE IF c \in { "d", "D" } THEN "d"
    ELSE IF c \in { "f", "F" } THEN "f"
    ELSE IF c \in { "n", "N" } THEN "n"
    ELSE IF c \in { "g", "G" } THEN "g"
    ELSE c

\* The extension the claim speaks of: the suffix without its dot, whatever
\* its case.
StatedExtension(filename) ==
    LET suffix == PathSuffix(filename)
    IN IF suffix = << >> THEN << >>
       ELSE [k \in 1..(Len(suffix) - 1) |-> SameLetter(suffix[k + 1])]

StatedExtensions ==
    { << "p", "d", "f" >>, << "j", "p", "g" >>, << "j", "p", "e", "g" >>,
      << "p", "n", "g" >> }

\* The content is what the extension says: %PDF- bytes for pdf, bytes that
\* decode as an image for the image extensions.
ContentMatches ==
    IF StatedExtension(upload.filename) = << "p", "d", "f" >>
    THEN upload.content = "pdf"
    ELSE upload.content = "image"

\* C18: an upload within the size limit is accepted exactly when its
\* extension is pdf, jpg, jpeg or png in any case and its content matches the
\* extension; otherwise it is rejected with the extension error or with the
\* corrupt-content error of its kind.
C18_AcceptedIffExtensionAndContent ==
    (Validated /\ upload.size <= MAX_FILE_SIZE) =>
        LET extOk == StatedExtension(upload.filename) \in StatedExtensions
        IN /\ Accepted <=> (extOk /\ ContentMatches)
           /\ ~extOk => RejectedWith("File extension not allowed")
           /\ (extOk /\ ~ContentMatches) =>
                  IF StatedExtension(upload.filename) = << "p", "d", "f" >>
                  THEN RejectedWith("Invalid PDF file: missing PDF header")
                  ELSE RejectedWith("Invalid image file: ")

\* C18's case: an upper-case .PDF name with PDF content went on after
\* validation.
C18_Witness ==
    /\ upload.filename = << "a", ".", "P", "D", "F" >>
    /\ upload.content = "pdf"
    /\ upload.size <= MAX_FILE_SIZE
    /\ Validated /\ Accepted

\* The stage a run failed in, read off the operations it performed.
FailedStage ==
    IF Len(log) = 1 THEN "validation"
    ELSE IF log[Len(log)].op \in { "convert_pdf", "open_image" } THEN "conversion"
    ELSE IF log[Len(log)].op = "infer" THEN "inference"
    ELSE "extraction"

Failed == pc = "done" /\ outcome.kind = "Error"

\* The kind of failure a too long upload is rejected with.
KindOfValidationFailure ==
    validate_file_content(MAX_FILE_SIZE + 1, << "a" >>, "junk").type

\* C19: the kind of a failure tells the stage that failed; so a failure of
\* conversion, inference or extraction never has the kind a validation
\* failure has.
C19_KindIdentifiesStage ==
    (Failed /\ FailedStage # "validation") =>
        outcome.error.type # KindOfValidationFailure

\* C20: create_labels answers a validation or a conversion failure with
\* status 400, and an inference failure with a status that is not 400.
C20_InferenceFailureIsNot400 ==
    (Failed /\ http.stage = "responded") =>
        /\ FailedStage \in { "validation", "conversion" } => http.status = 400
        /\ FailedStage = "inference" => http.status # 400

(***************************************************************************)
(* Properties of create_labels and of the outcome of a run.                *)
(***************************************************************************)
ResponseOps == { "build_response", "print_label_file", "print_command", "cleanup" }

\* C21: when the pipeline returns NotFound, create_labels answers with status
\* 200, success false and the reason as message, raises nothing, attempts no
\* print whatever print_label is, and no output file exists or is cleaned up.
C21_NotFoundIsSuccessfulButEmpty ==
    outcome.kind = "NotFound" =>
        /\ "output" \notin files
        /\ \A k \in DOMAIN log : log[k].op \notin ResponseOps \cup { "create_temp_output" }
        /\ http.stage \in { "pending", "responded" }
        /\ http.stage = "responded" =>
               /\ ~http.raised /\ http.status = 200 /\ ~http.success
               /\ http.detail = outcome.message /\ http.detail # << >>
               /\ http.data = NoData

\* C21's case: a request with print_label true whose PDF gave no label has
\* been answered.
C21_Witness ==
    /\ outcome.kind = "NotFound" /\ isPdf /\ npages > 0
    /\ upload.print_label
    /\ http.stage = "responded"

Terminated == pc \in { "done", "unprocessed" }

\* What process_uploaded_file returned or raised is one of the three outcomes,
\* set when the run ends, with what each carries.
ExplicitOutcome ==
    /\ pc = "done" <=> outcome.kind \in { "Found", "NotFound", "Error" }
    /\ pc # "done" => outcome = NoOutcome
    /\ outcome.kind = "Found" =>
           /\ ~outcome.label.raised
           /\ outcome.label.width > 0 /\ outcome.label.height > 0
           /\ \E k \in DOMAIN log :
                  log[k].op = "create_temp_output" /\ log[k].page = outcome.page
           /\ http.stage = "pending" => "output" \in files
           /\ outcome.prediction \in PredSet
           /\ outcome.prediction = pick_best_prediction(inferred.predictions).value
           /\ outcome.message = << "<temp_output_path>" >> /\ outcome.error = NoExc
    /\ outcome.kind = "NotFound" =>
           /\ outcome.message # << >>
           /\ outcome.label = NoLabel /\ outcome.prediction = NoPred
           /\ outcome.error = NoExc
    /\ outcome.kind = "Error" =>
           /\ outcome.error.type # "none"
           /\ outcome.label = NoLabel /\ outcome.prediction = NoPred

\* C22: every run ends, and ends in exactly one explicit outcome: Found with
\* an image, a temporary file and the selected prediction, NotFound with a
\* reason and no image or prediction, or an error.
C22_RunEndsInOneExplicitOutcome == []ExplicitOutcome /\ <>Terminated

\* C22's case: a two-page PDF run ended with Found on the second page.
C22_Witness ==
    /\ pc = "done" /\ isPdf /\ npages = 2
    /\ outcome.kind = "Found" /\ outcome.page = 1

\* Loading the pages failed: convert_pdf_to_images or Image.open was called
\* and gave no pages.
ConversionFailed ==
    \E k \in DOMAIN log :
        /\ log[k].op \in { "convert_pdf", "open_image" }
        /\ k = Len(log) \/ log[k + 1].op # "pages_loaded"

\* C23: when loading the pages fails, the run ends with the conversion error,
\* inference is never called and nothing of a result comes back: no label, no
\* prediction, no output file, and the request is answered with the error.
C23_ConversionFailureEndsRun ==
    ConversionFailed =>
        /\ pc = "done" /\ outcome.kind = "Error"
        /\ outcome.error.type = "ImageProcessingError"
        /\ IF isPdf THEN Contains(outcome.error.msg, "Failed to convert PDF: ")
                    ELSE Contains(outcome.error.msg, "Image processing failed: ")
        /\ outcome.label = NoLabel /\ outcome.prediction = NoPred
        /\ \A k \in DOMAIN log : log[k].op \notin PageOps \cup ResponseOps
        /\ "output" \notin files
        /\ http.stage = "responded" =>
               http.raised /\ ~http.success /\ http.data = NoData

\* C23's case: the rasterization of a PDF failed and the request was answered.
C23_Witness ==
    /\ ConversionFailed /\ isPdf
    /\ http.stage = "responded"

(***************************************************************************)
(* Properties of concurrent requests (checked under SpecConcurrent).       *)
(***************************************************************************)
\* The answer a request gets when it is the only one: its files are there
\* when it uses them.
AloneResponse(q) ==
    LET o == ScenarioOutcome(q.scenario)
        h == process_label_file(o)
    IN IF h.stage # "processed" THEN h
       ELSE [h EXCEPT !.stage = "responded", !.status = 200,
                      !.detail = << "Label successfully detected and processed" >>,
                      !.data = IF q.print_label
                               THEN handle_printing(build_success_response(o),
                                        print_label_file(q.print.enabled, TRUE, q.print.run))
                               ELSE build_success_response(o)]

\* C24: in every interleaving of the requests, each request is answered as it
\* is when it runs alone, and no request reads, overwrites or deletes a file
\* that another request wrote.
C24_ConcurrentRequestsIndependent ==
    \A r \in DOMAIN reqs :
        /\ ~reqs[r].foreign
        /\ reqs[r].pc \in { "responded", "final" } => reqs[r].http = AloneResponse(reqs[r])
        /\ \A f \in files : f.by = r => f.name \in { reqs[r].input, reqs[r].output }

\* C24's case: two requests that found a label, one printing it, held their
\* output files at the same time (under different names) and were answered.
C24_Witness ==
    /\ DOMAIN reqs = Requests
    /\ \A r \in Requests : reqs[r].pc = "final" /\ reqs[r].scenario = "found"
    /\ reqs[1].print_label /\ reqs[1].http.data.print_success
    /\ reqs[1].output # reqs[2].output

(***************************************************************************)
(* Properties of the temporary files and of printing (checked under Spec). *)
(***************************************************************************)
\* C25: once a request has been answered, however it ended, no temporary
\* output file of it is left on disk.
C25_NoOutputFileAfterRequest ==
    http.stage = "responded" => "output" \notin files

\* C26: once process_uploaded_file has returned or raised, the temporary
\* input file no longer exists.
C26_NoInputFileAfterPipeline ==
    pc = "done" => "input" \notin files

PrintOps == { "print_label_file", "print_command" }

\* C27: printing is attempted only for a Found label with print_label set, at
\* most once, on a file that exists at that moment, and the file is deleted
\* only after the attempt.
C27_PrintOnceBeforeCleanup ==
    /\ \A k \in DOMAIN log :
           log[k].op \in PrintOps =>
               /\ outcome.kind = "Found" /\ upload.print_label
               /\ log[k].n = 1
               /\ \A j \in DOMAIN log : log[j].op = "cleanup" => j > k
               /\ \A j \in DOMAIN log : log[j].op = log[k].op => j = k
    /\ (\E k \in DOMAIN log : log[k].op = "cleanup")
           => (upload.print_label <=> \E k \in DOMAIN log : log[k].op = "print_label_file")

\* C27's case: the print command ran and the output file was deleted after it.
C27_Witness ==
    /\ \E k \in DOMAIN log : log[k].op = "print_command"
    /\ log[Len(log)].op = "cleanup" /\ log[Len(log)].n = 1
    /\ "output" \notin files
    /\ http.stage = "responded"

PrintFailed == http.data.print_attempted /\ ~http.data.print_success

\* C28: when printing fails, the answer still is success with the label's
\* image, dimensions and confidence as without printing, it says
\* print_attempted true and print_success false with the error message, and
\* the output file is deleted all the same.
C28_PrintFailureKeepsLabel ==
    PrintFailed =>
        /\ http.success /\ ~http.raised
        /\ http.data.image = outcome.label
        /\ http.data.label_dimensions = build_success_response(outcome).label_dimensions
        /\ http.data.confidence = outcome.prediction.confidence
        /\ http.data.print_message # << >>
        /\ http.data.print_error = http.data.print_message
        /\ http.stage \in { "printed", "responded" }
        /\ http.stage = "responded" => (http.status = 200 /\ "output" \notin files)

\* C28's case: the print command ended with a non-zero exit code and the
\* request was answered.
C28_Witness ==
    /\ PrintFailed
    /\ http.data.print_message = << "Print command failed with exit code " >>
    /\ http.stage = "responded"

(***************************************************************************)
(* The file kind in validation and in the pipeline (checked under Spec).   *)
(***************************************************************************)
ValidatedAsPdf == Lower(PathSuffix(upload.filename)) = DotPdf

OpenedAsImage == \E k \in DOMAIN log : log[k].op = "open_image"

RasterizedAsPdf == \E k \in DOMAIN log : log[k].op = "convert_pdf"

\* C29: an accepted upload is processed as a PDF exactly when it was validated
\* as a PDF: what was checked against the PDF header only is never opened as
\* an image, and what was verified as an image is never rasterized.
C29_ValidatorAndPipelineAgreeOnKind ==
    /\ (Accepted /\ pc # "validated") => (isPdf <=> ValidatedAsPdf)
    /\ OpenedAsImage => ~ValidatedAsPdf
    /\ RasterizedAsPdf => ValidatedAsPdf

(***************************************************************************)
(* main.process_file against process_uploaded_file (checked under          *)
(* SpecCompare).                                                           *)
(***************************************************************************)
BothReturned ==
    /\ pc = "done" /\ outcome.kind \in { "Found", "NotFound" }
    /\ legacy.pc = "done" /\ legacy.outcome.kind \in { "Found", "NotFound" }

NoZeroHeight ==
    \A i \in DOMAIN answers :
        \A k \in DOMAIN answers[i].predictions : answers[i].predictions[k].height # 0

\* the rectangle main.py crops lies inside the page
ChosenBoxInsidePage ==
    legacy.outcome.kind = "Found" =>
        LET box == legacy.outcome.label.box
        IN /\ 0 <= box[1] /\ box[1] <= box[3] /\ box[3] <= PageW
           /\ 0 <= box[2] /\ box[2] <= box[4] /\ box[4] <= PageH

\* C30: when neither pipeline meets an error, no prediction has height 0 and
\* the chosen box lies inside the page, main.process_file and
\* process_uploaded_file both find nothing, or stop at the same page with the
\* same prediction, the same rectangle and the same rotation.
C30_LegacyAndServiceAgree ==
    (BothReturned /\ NoZeroHeight /\ ChosenBoxInsidePage) =>
        /\ legacy.outcome.kind = outcome.kind
        /\ legacy.outcome.page = outcome.page
        /\ legacy.outcome.prediction = outcome.prediction
        /\ legacy.outcome.label = outcome.label

\* C30's case: both found the label on the second page of a PDF, choosing
\* among two predictions, and rotated it.
C30_Witness ==
    /\ BothReturned /\ NoZeroHeight /\ ChosenBoxInsidePage
    /\ outcome.kind = "Found" /\ legacy.outcome.kind = "Found"
    /\ outcome.page = 1
    /\ Len(answers[2].predictions) = 2
    /\ outcome.label.rotated

====
